---- MODULE Spec2Model ----
(***************************************************************************)
(* A model of scripts/plotting/cam_taylor_diagram.py:                      *)
(*   - the field retrieval layer (_retrieve, get_derive_func and the       *)
(*     derived-variable functions) over an abstract file store,            *)
(*   - the season x variable x case loop of cam_taylor_diagram,            *)
(*   - the bias binning of plot_taylor_data,                               *)
(*   - vertical_average on one column,                                     *)
(*   - taylor_stats_single on small integer grids.                         *)
(***************************************************************************)
EXTENDS Integers, Sequences, FiniteSets, TLC

VARIABLES
    \* cam_taylor_diagram
    pc, ncases, plot_type, si, vi, ci, base_x, result_by_case, saved,
    computed, exc, nplotted, nref, ncase,
    \* a single call of a function of the retrieval layer
    call, ret,
    \* plot_taylor_data: one row of the statistics table
    bias, bias_digi, mk, mksz,
    \* vertical_average on one column
    va_in, va_out,
    \* taylor_stats_single
    ts_in, ts_out

vars == <<pc, ncases, plot_type, si, vi, ci, base_x, result_by_case, saved,
          computed, exc, nplotted, nref, ncase, call, ret, bias, bias_digi, mk, mksz,
          va_in, va_out, ts_in, ts_out>>

mainvars == <<pc, ncases, plot_type, si, vi, ci, base_x, result_by_case, saved,
              computed, exc, nplotted, nref, ncase>>
callvars == <<call, ret>>
plotvars == <<bias, bias_digi, mk, mksz>>
vavars == <<va_in, va_out>>
tsvars == <<ts_in, ts_out>>
\* what the steps of cam_taylor_diagram leave alone
notmain == <<callvars, plotvars, vavars, tsvars>>
\* what a call of the retrieval layer leaves alone
notcall == <<mainvars, plotvars, vavars, tsvars>>
\* what plot_taylor_data leaves alone
notplot == <<mainvars, callvars, vavars, tsvars>>
\* what vertical_average leaves alone
notva == <<mainvars, callvars, plotvars, tsvars>>
\* what taylor_stats_single leaves alone
notts == <<mainvars, callvars, plotvars, vavars>>

----------------------------------------------------------------------------
\* Bounds of the model.

\* the largest number of test cases in cam_case_name
MaxCases == 2
\* the largest number of files one glob pattern matches
MaxFiles == 2
\* the largest number of history files of a case
MaxHist == 2

----------------------------------------------------------------------------
\* The file store seen through Path(location).glob(...).

\* the variable names that occur in a glob pattern f"{casename}*_{X}_*.nc";
\* FOO stands for a name that is neither stored by convention nor derived
Patterns ==
    {"PSL", "SWCF", "LWCF", "PRECT", "PRECC", "PRECL", "LANDFRAC", "TREFHT",
     "TAUX", "U", "RELHUM", "T", "FOO"}

RECURSIVE BoolSeqs(_)
\* the sequences of booleans of length n
BoolSeqs(n) ==
    IF n = 0 THEN {<<>>}
    ELSE {Append(q, b) : q \in BoolSeqs(n - 1), b \in BOOLEAN}

\* the history files of a case, in the order the glob yields them; each is
\* TRUE when the file holds LANDFRAC
HistLists == UNION {BoolSeqs(n) : n \in 0..MaxHist}

\* the file stores in which only the patterns of R match files:
\* n[p] is the number of files pattern p matches, hist the history files
Envs(R, hists) ==
    {[n |-> [p \in Patterns |-> IF p \in R THEN f[p] ELSE 0], hist |-> h] :
        f \in [R -> 0..MaxFiles], h \in hists}

----------------------------------------------------------------------------
\* Values: a field (DataArray or Dataset) or a raised exception.

\* the months of a climatology file: time is 1..12
AllMonths == 1..12

\* raise type(msg), the message formatted with a variable name and a count
Raise(type, msg, var, count) ==
    [status |-> "error", type |-> type, msg |-> msg, var |-> var,
     count |-> count, keys |-> {}, deferred |-> FALSE, src |-> "", idx |-> 0,
     region |-> "", months |-> {}, timedim |-> FALSE]

\* a field named var read from file number idx of the files src names;
\* deferred is TRUE when its data is a dask graph that has not been loaded
Field(type, var, deferred, src, idx) ==
    [status |-> "ok", type |-> type, msg |-> "", var |-> var, count |-> -1,
     keys |-> {}, deferred |-> deferred, src |-> src, idx |-> idx,
     region |-> "", months |-> AllMonths, timedim |-> TRUE]

IsError(r) == r.status = "error"

\* .load(): the data is materialized
load(x) == [x EXCEPT !.deferred = FALSE]

\* xr.open_mfdataset(fils): a dask-backed dataset, nothing is read yet
open_mfdataset(var, src) == Field("Dataset", var, TRUE, src, 0)

\* xr.open_dataset(file number idx): no chunks are asked for, so no dask graph
open_dataset(var, src, idx) == Field("Dataset", var, FALSE, src, idx)

\* ds[name]
getitem(ds, name) == [ds EXCEPT !.type = "DataArray", !.var = name]

\* xr.DataArray(np.where(cond, x, np.nan), ...): np.where computes its operand
where_mask(x, region) == [x EXCEPT !.deferred = FALSE, !.region = region]

\* x.sel(lat=slice(a, b))
sel_lat(x, band) == [x EXCEPT !.region = IF x.region = "" THEN band
                                         ELSE x.region \o "," \o band]

\* precc + precl: the names of the operands differ, so the sum has no name
add(a, b) ==
    [a EXCEPT !.var = "", !.src = a.src \o "+" \o b.src,
              !.deferred = a.deferred \/ b.deferred]

\* da.to_dataset(name=variable)
to_dataset(da, name) == [da EXCEPT !.type = "Dataset", !.var = name]

----------------------------------------------------------------------------
\* find_landmask

\* not hfils, had hfils been made a list: true of the empty list
not_hfils_list(hist) == Len(hist) = 0
\* not hfils, where hfils is the generator Path(hloc).glob(...) returns:
\* a generator object is true whatever it will yield
not_hfils(hist) == FALSE

RECURSIVE scan_history(_, _, _)
\* for h in hfils: ... else: raise; i is the next file, k the files counted
scan_history(hist, i, k) ==
    IF i > Len(hist)
    THEN Raise("IOError", "Checked {k} files, but did not find LANDFRAC in any of them.", "", k)
    ELSE IF hist[i]
         THEN getitem(open_dataset("LANDFRAC", "history", i), "LANDFRAC")
         ELSE scan_history(hist, i + 1, k + 1)

find_landmask(env) ==
    IF env.n["LANDFRAC"] > 0
    THEN getitem(open_dataset("LANDFRAC", "climo", 1), "LANDFRAC")
    ELSE IF not_hfils(env.hist)
         THEN Raise("IOError", "No history files in expected location: {hloc}", "", -1)
         ELSE scan_history(env.hist, 1, 0)

----------------------------------------------------------------------------
\* get_prect

\* the test that guards the single-file sum PRECC + PRECL: only the PRECC
\* files are counted
single_file_case(n1, n2) == n1 = 1

get_prect(env) ==
    LET n == env.n["PRECT"]
        n1 == env.n["PRECC"]
        n2 == env.n["PRECL"]
    IN  IF n = 0
        THEN IF n1 = 0 \/ n2 = 0
             THEN Raise("IOError", "Could not find PRECC or PRECL", "", -1)
             ELSE IF single_file_case(n1, n2)
                  THEN add(getitem(open_dataset("PRECC", "PRECC", 1), "PRECC"),
                           getitem(open_dataset("PRECL", "PRECL", 1), "PRECL"))
                  ELSE Raise("NotImplementedError", "Need to deal with mult-file case.", "", -1)
        ELSE IF n > 1
             THEN load(getitem(open_mfdataset("PRECT", "PRECT"), "PRECT"))
             ELSE getitem(open_dataset("PRECT", "PRECT", 1), "PRECT")

----------------------------------------------------------------------------
\* the derived variables

get_tropical_land_precip(env) ==
    LET landfrac == find_landmask(env)
        prect == get_prect(env)
    IN  IF IsError(landfrac) THEN landfrac
        ELSE IF IsError(prect) THEN prect
        ELSE sel_lat(where_mask(prect, "landfrac>=0.95"), "lat[-30,30]")

get_tropical_ocean_precip(env) ==
    LET landfrac == find_landmask(env)
        prect == get_prect(env)
    IN  IF IsError(landfrac) THEN landfrac
        ELSE IF IsError(prect) THEN prect
        ELSE sel_lat(where_mask(prect, "landfrac<=0.05"), "lat[-30,30]")

get_vertical_average(env, varname) ==
    LET n == env.n[varname]
    IN  IF n = 0
        THEN Raise("IOError", "Could not find {varname}", varname, -1)
        ELSE IF n = 1
             THEN [getitem(open_dataset(varname, varname, 1), varname)
                      EXCEPT !.region = "column"]
             ELSE Raise("NotImplementedError", "Need to deal with mult-file case.", "", -1)

get_virh(env) == get_vertical_average(env, "RELHUM")

get_vit(env) == get_vertical_average(env, "T")

get_landt2m(env) ==
    LET n == env.n["TREFHT"]
        t == IF n > 1 THEN load(getitem(open_mfdataset("TREFHT", "TREFHT"), "TREFHT"))
             ELSE getitem(open_dataset("TREFHT", "TREFHT", 1), "TREFHT")
        landfrac == find_landmask(env)
    IN  IF n = 0
        THEN Raise("IOError", "TREFHT could not be found in the files.", "", -1)
        ELSE IF IsError(landfrac) THEN landfrac
        ELSE where_mask(t, "landfrac>=0.95")

get_eqpactaux(env) ==
    LET n == env.n["TAUX"]
    IN  IF n = 0
        THEN Raise("IOError", "TAUX could not be found in the files.", "", -1)
        ELSE IF n > 1
             THEN sel_lat(load(getitem(open_mfdataset("TAUX", "TAUX"), "TAUX")), "lat[-5,5]")
             ELSE sel_lat(getitem(open_dataset("TAUX", "TAUX", 1), "TAUX"), "lat[-5,5]")

----------------------------------------------------------------------------
\* get_derive_func and _retrieve

\* the keys of the dict funcs, each with the function it names
funcs ==
    [f \in {"TropicalLandPrecip", "TropicalOceanPrecip", "U300",
            "ColumnRelativeHumidity", "ColumnTemperature", "Land2mTemperature",
            "EquatorialPacificStress"} |->
        CASE f = "TropicalLandPrecip" -> "get_tropical_land_precip"
          [] f = "TropicalOceanPrecip" -> "get_tropical_ocean_precip"
          [] f = "U300" -> "get_u_at_plev"
          [] f = "ColumnRelativeHumidity" -> "get_virh"
          [] f = "ColumnTemperature" -> "get_vit"
          [] f = "Land2mTemperature" -> "get_landt2m"
          [] f = "EquatorialPacificStress" -> "get_eqpactaux"]

\* a function object, the value get_derive_func returns
Func(name) ==
    [status |-> "ok", type |-> "function", msg |-> "", var |-> name,
     count |-> -1, keys |-> {}, deferred |-> FALSE, src |-> "", idx |-> 0,
     region |-> "", months |-> {}, timedim |-> FALSE]

\* funcs[fld] with no test before it: a KeyError for an unknown name
get_derive_func_unchecked(fld) ==
    IF fld \notin DOMAIN funcs
    THEN Raise("KeyError", "{fld}", fld, -1)
    ELSE Func(funcs[fld])

get_derive_func(fld) ==
    IF fld \notin DOMAIN funcs
    THEN Raise("ValueError", "We do not have a method for variable: {fld}.", fld, -1)
    ELSE Func(funcs[fld])

v_to_derive ==
    {"TropicalLandPrecip", "TropicalOceanPrecip", "EquatorialPacificStress",
     "U300", "ColumnRelativeHumidity", "ColumnTemperature", "Land2mTemperature"}

\* xr.open_mfdataset(fils) followed by .load(), as get_prect does it
open_multi_loaded(variable) == load(open_mfdataset(variable, variable))
\* ds = xr.open_mfdataset(fils)
open_multi(variable) == open_mfdataset(variable, variable)

RECURSIVE _retrieve(_, _, _)

get_var_at_plev(env, variable, plev) ==
    LET dset == _retrieve(variable, env, TRUE)
    IN  IF IsError(dset) THEN dset
        ELSE [load(getitem(dset, "U")) EXCEPT !.region = "plev"]

get_u_at_plev(env) == get_var_at_plev(env, "U", 300)

\* func(adfobj, casename, location) for the function func names
apply(func, env) ==
    CASE func = "get_tropical_land_precip" -> get_tropical_land_precip(env)
      [] func = "get_tropical_ocean_precip" -> get_tropical_ocean_precip(env)
      [] func = "get_u_at_plev" -> get_u_at_plev(env)
      [] func = "get_virh" -> get_virh(env)
      [] func = "get_vit" -> get_vit(env)
      [] func = "get_landt2m" -> get_landt2m(env)
      [] func = "get_eqpactaux" -> get_eqpactaux(env)

_retrieve(variable, env, return_dataset) ==
    IF variable \notin v_to_derive
    THEN LET n == env.n[variable]
             ds == IF n > 1 THEN open_multi(variable)
                   ELSE open_dataset(variable, variable, 1)
         IN  IF n = 0
             THEN Raise("ValueError", "something went wrong for variable: {variable}",
                        variable, -1)
             ELSE IF return_dataset THEN ds ELSE getitem(ds, variable)
    ELSE LET func == get_derive_func(variable)
             da == apply(func.var, env)
         IN  IF IsError(func) THEN func
             ELSE IF IsError(da) THEN da
             ELSE IF return_dataset THEN to_dataset(da, variable) ELSE da

----------------------------------------------------------------------------
\* One call of a function of the retrieval layer on a file store.

\* TAYLOR PLOT VARIABLES
var_list ==
    <<"PSL", "SWCF", "LWCF", "TropicalLandPrecip", "TropicalOceanPrecip",
      "Land2mTemperature", "EquatorialPacificStress", "U300",
      "ColumnRelativeHumidity", "ColumnTemperature">>

\* the names a caller may ask for: the plot variables, a stored variable
\* that is no plot variable, and a name nothing registers
Requested == {var_list[i] : i \in 1..Len(var_list)} \cup {"U", "FOO"}

\* the patterns whose files decide the retrieval of variable
Relevant(variable) ==
    CASE variable \in {"TropicalLandPrecip", "TropicalOceanPrecip"} ->
            {"LANDFRAC", "PRECT", "PRECC", "PRECL"}
      [] variable = "Land2mTemperature" -> {"TREFHT", "LANDFRAC"}
      [] variable = "EquatorialPacificStress" -> {"TAUX"}
      [] variable = "U300" -> {"U"}
      [] variable = "ColumnRelativeHumidity" -> {"RELHUM"}
      [] variable = "ColumnTemperature" -> {"T"}
      [] OTHER -> {variable}

\* whether find_landmask is reached when variable is retrieved
UsesLandmask(variable) ==
    variable \in {"TropicalLandPrecip", "TropicalOceanPrecip", "Land2mTemperature"}

\* the file stores that matter to the retrieval of variable; the history
\* files are globbed only when no climatology file holds LANDFRAC
EnvsFor(variable) ==
    IF UsesLandmask(variable)
    THEN Envs(Relevant(variable), {<<>>})
            \cup Envs(Relevant(variable) \ {"LANDFRAC"}, HistLists)
    ELSE Envs(Relevant(variable), {<<>>})

NoCall == [fn |-> "", variable |-> "", return_dataset |-> FALSE,
           env |-> [n |-> [p \in Patterns |-> 0], hist |-> <<>>]]

\* no value yet: the call has not returned
NoValue == [Raise("", "", "", -1) EXCEPT !.status = "none"]

\* the calls of _retrieve
RetrieveCalls ==
    UNION {{[fn |-> "_retrieve", variable |-> variable,
             return_dataset |-> return_dataset, env |-> env] :
                return_dataset \in BOOLEAN, env \in EnvsFor(variable)} :
           variable \in Requested}

\* the calls of get_derive_func
DeriveFuncCalls ==
    {[NoCall EXCEPT !.fn = "get_derive_func", !.variable = fld] : fld \in Requested}

\* the calls of get_prect
PrectCalls ==
    {[NoCall EXCEPT !.fn = "get_prect", !.env = env] :
        env \in Envs({"PRECT", "PRECC", "PRECL"}, {<<>>})}

\* the calls of find_landmask
LandmaskCalls ==
    {[NoCall EXCEPT !.fn = "find_landmask", !.env = env] :
        env \in Envs({"LANDFRAC"}, HistLists)}

\* no call of the retrieval layer is under way
CallIdle ==
    /\ call = NoCall
    /\ ret = NoValue

\* a call with its arguments, not yet run
CallInit ==
    /\ call \in RetrieveCalls \cup DeriveFuncCalls \cup PrectCalls \cup LandmaskCalls
    /\ ret = NoValue

Pending == ret = NoValue

Call_retrieve ==
    /\ UNCHANGED notcall
    /\ Pending
    /\ call.fn = "_retrieve"
    /\ ret' = _retrieve(call.variable, call.env, call.return_dataset)
    /\ UNCHANGED call

Call_get_derive_func ==
    /\ UNCHANGED notcall
    /\ Pending
    /\ call.fn = "get_derive_func"
    /\ ret' = get_derive_func(call.variable)
    /\ UNCHANGED call

Call_get_prect ==
    /\ UNCHANGED notcall
    /\ Pending
    /\ call.fn = "get_prect"
    /\ ret' = get_prect(call.env)
    /\ UNCHANGED call

Call_find_landmask ==
    /\ UNCHANGED notcall
    /\ Pending
    /\ call.fn = "find_landmask"
    /\ ret' = find_landmask(call.env)
    /\ UNCHANGED call

----------------------------------------------------------------------------
\* cam_taylor_diagram: the loop over seasons, variables and cases.

\* the seasons in the order of the calendar, the year last
season_keys_sorted_by_start == <<"DJF", "MAM", "JJA", "SON", "ANN">>
\* the keys of the dict seasons, in the order a for loop visits them: the
\* order in which the dict literal lists them
season_keys == <<"ANN", "DJF", "JJA", "MAM", "SON">>

\* seasons[s]: the months of season s
seasons ==
    [s \in {"ANN", "DJF", "JJA", "MAM", "SON"} |->
        CASE s = "ANN" -> 1..12
          [] s = "DJF" -> {12, 1, 2}
          [] s = "JJA" -> {6, 7, 8}
          [] s = "MAM" -> {3, 4, 5}
          [] s = "SON" -> {9, 10, 11}]

\* the values of basic_info_dict.get('plot_type', 'png')
PlotTypes == {"png", "pdf"}

\* x.sel(time=months).mean(dim='time')
sel_time_mean(x, months) == [x EXCEPT !.months = months, !.timedim = FALSE]

\* a cell of df_template: no statistic stored yet
EmptyCell ==
    [stored |-> FALSE, case_months |-> {}, case_timedim |-> FALSE,
     ref_months |-> {}, ref_timedim |-> FALSE, ref_call |-> 0]

\* the row taylor_stats_single(casedata, refdata) stores, kept as the time
\* extent of its two operands; ref_call tells which retrieval of the reference
\* (the first, the second, ...) bound the object passed as refdata
stats_row(casedata, refdata, ref_call) ==
    [stored |-> TRUE,
     case_months |-> casedata.months, case_timedim |-> casedata.timedim,
     ref_months |-> refdata.months, ref_timedim |-> refdata.timedim,
     ref_call |-> ref_call]

\* plot_loc / f"amwg_taylor_diagram_{s}.{plot_type}"
out_file_name(s, ptype) == <<"amwg_taylor_diagram", s, ptype>>

NVars == Len(var_list)
NSeasons == Len(season_keys)

\* where control would go were the exception of a call caught and passed over
after_call_swallowed(r, next) == next
\* where control goes when a call returned r: an exception leaves the
\* function, nothing catches it
after_call(r, next) == IF IsError(r) THEN "raised" ELSE next

MainInit ==
    /\ pc = "for_s"
    /\ ncases \in 0..MaxCases
    /\ plot_type \in PlotTypes
    /\ si = 1
    /\ vi = 1
    /\ ci = 1
    /\ base_x = NoValue
    /\ result_by_case = [c \in 1..ncases |-> [v \in 1..NVars |-> EmptyCell]]
    /\ saved = <<>>
    /\ computed = {}
    /\ exc = NoValue
    /\ nplotted = 0
    /\ nref = 0
    /\ ncase = 0

\* cam_taylor_diagram is not run
MainIdle ==
    /\ pc = "idle"
    /\ ncases = 0
    /\ plot_type = "png"
    /\ si = 1
    /\ vi = 1
    /\ ci = 1
    /\ base_x = NoValue
    /\ result_by_case = <<>>
    /\ saved = <<>>
    /\ computed = {}
    /\ exc = NoValue
    /\ nplotted = 0
    /\ nref = 0
    /\ ncase = 0

\* for s in seasons: df_template, result_by_case
ForSeason ==
    /\ pc = "for_s"
    /\ UNCHANGED notmain
    /\ si <= NSeasons
    /\ result_by_case' = [c \in 1..ncases |-> [v \in 1..NVars |-> EmptyCell]]
    /\ vi' = 1
    /\ pc' = "for_v"
    /\ UNCHANGED <<ncases, plot_type, si, ci, base_x, saved, computed, exc,
                   nplotted, nref, ncase>>

\* the loop over the seasons ends: return
Return ==
    /\ pc = "for_s"
    /\ UNCHANGED notmain
    /\ si > NSeasons
    /\ pc' = "done"
    /\ UNCHANGED <<ncases, plot_type, si, vi, ci, base_x, result_by_case, saved,
                   computed, exc, nplotted, nref, ncase>>

\* for v in var_list: base_x = _retrieve(adfobj, v, data_name, data_loc)
ForVariable ==
    /\ pc = "for_v"
    /\ UNCHANGED notmain
    /\ vi <= NVars
    /\ \E env \in EnvsFor(var_list[vi]) :
         LET r == _retrieve(var_list[vi], env, FALSE)
         IN  /\ pc' = after_call(r, "for_case")
             /\ exc' = IF IsError(r) THEN r ELSE exc
             /\ base_x' = IF IsError(r) THEN base_x ELSE r
             /\ nref' = nref + 1
    /\ ci' = 1
    /\ UNCHANGED <<ncases, plot_type, si, vi, result_by_case, saved, computed,
                   nplotted, ncase>>

\* the loop over the variables ends: fig, ax = taylor_plot_setup()
PlotSetup ==
    /\ pc = "for_v"
    /\ UNCHANGED notmain
    /\ vi > NVars
    /\ nplotted' = 0
    /\ pc' = "plot_data"
    /\ UNCHANGED <<ncases, plot_type, si, vi, ci, base_x, result_by_case, saved,
                   computed, exc, nref, ncase>>

\* the loop over the cases as it would be with the reference resolved inside
\* it: base_x is retrieved again for every case
ForCase_ref_in_loop ==
    /\ pc = "for_case"
    /\ UNCHANGED notmain
    /\ ci <= ncases
    /\ \E benv \in EnvsFor(var_list[vi]), env \in EnvsFor(var_list[vi]) :
         LET b == _retrieve(var_list[vi], benv, FALSE)
             r == _retrieve(var_list[vi], env, FALSE)
             case_x == sel_time_mean(r, seasons[season_keys[si]])
             failed == IsError(b) \/ IsError(r)
         IN  /\ pc' = IF failed THEN "raised" ELSE "for_case"
             /\ exc' = IF IsError(b) THEN b ELSE IF IsError(r) THEN r ELSE exc
             /\ base_x' = IF IsError(b) THEN base_x ELSE b
             /\ IF failed
                THEN UNCHANGED <<result_by_case, computed>>
                ELSE /\ result_by_case' =
                          [result_by_case EXCEPT
                             ![ci][vi] = stats_row(case_x, b, nref + 1)]
                     /\ computed' = computed \cup {<<si, vi, ci>>}
    /\ ci' = ci + 1
    /\ ncase' = ncase + 1
    /\ nref' = nref + 1
    /\ UNCHANGED <<ncases, plot_type, si, vi, saved, nplotted>>

\* for casenumber, case in enumerate(case_names): retrieve, reduce, store
ForCase ==
    /\ pc = "for_case"
    /\ UNCHANGED notmain
    /\ ci <= ncases
    /\ \E env \in EnvsFor(var_list[vi]) :
         LET r == _retrieve(var_list[vi], env, FALSE)
             case_x == sel_time_mean(r, seasons[season_keys[si]])
         IN  /\ pc' = after_call(r, "for_case")
             /\ exc' = IF IsError(r) THEN r ELSE exc
             /\ IF IsError(r)
                THEN UNCHANGED <<result_by_case, computed>>
                ELSE /\ result_by_case' =
                          [result_by_case EXCEPT
                             ![ci][vi] = stats_row(case_x, base_x, nref)]
                     /\ computed' = computed \cup {<<si, vi, ci>>}
    /\ ci' = ci + 1
    /\ ncase' = ncase + 1
    /\ UNCHANGED <<ncases, plot_type, si, vi, base_x, saved, nplotted, nref>>

\* the loop over the cases ends: the next variable
NextVariable ==
    /\ pc = "for_case"
    /\ UNCHANGED notmain
    /\ ci > ncases
    /\ vi' = vi + 1
    /\ pc' = "for_v"
    /\ UNCHANGED <<ncases, plot_type, si, ci, base_x, result_by_case, saved,
                   computed, exc, nplotted, nref, ncase>>

\* for i, case in enumerate(case_names): ax = plot_taylor_data(...)
PlotCase ==
    /\ pc = "plot_data"
    /\ UNCHANGED notmain
    /\ nplotted < ncases
    /\ nplotted' = nplotted + 1
    /\ UNCHANGED <<pc, ncases, plot_type, si, vi, ci, base_x, result_by_case,
                   saved, computed, exc, nref, ncase>>

\* taylor_plot_finalize, fig.text, fig.savefig(out_file_name)
FinalizeAndSave ==
    /\ pc = "plot_data"
    /\ UNCHANGED notmain
    /\ nplotted = ncases
    /\ saved' = Append(saved, out_file_name(season_keys[si], plot_type))
    /\ si' = si + 1
    /\ pc' = "for_s"
    /\ UNCHANGED <<ncases, plot_type, vi, ci, base_x, result_by_case, computed,
                   exc, nplotted, nref, ncase>>

----------------------------------------------------------------------------
\* plot_taylor_data: the marker of one row of the statistics table.

\* a bias is a whole number of 1/BiasUnit percent
BiasUnit == 2
\* the largest bias, in percent
MaxBias == 26

\* the biases a row may hold, in units of 1/BiasUnit percent
BiasValues == (-(MaxBias * BiasUnit))..(MaxBias * BiasUnit)

\* the bin edges handed to np.digitize, in percent
bins == <<-20, -10, -5, -1, 1, 5, 10, 20>>

marker_list == <<"v", "v", "v", "v", "o", "^", "^", "^", "^">>

marker_size == <<24, 16, 8, 4, 4, 4, 8, 16, 24>>

\* the handles of the bias legend of taylor_plot_finalize: a pair of triangles
\* for each of the four upper tiers and a circle for the lowest
bias_legend_elements ==
    << [marker |-> {"v", "^"}, label |-> "> 20%", markersize |-> 24],
       [marker |-> {"v", "^"}, label |-> "10-20%", markersize |-> 16],
       [marker |-> {"v", "^"}, label |-> "5-10%", markersize |-> 8],
       [marker |-> {"v", "^"}, label |-> ">1-5%", markersize |-> 4],
       [marker |-> {"o"}, label |-> "< 1%", markersize |-> 4] >>

RECURSIVE digitize_from(_, _, _)
\* the search of np.digitize over increasing edges with right=False: the
\* index i with edges[i-1] <= x < edges[i], counted from 0
digitize_from(x, edges, i) ==
    IF i > Len(edges) THEN Len(edges)
    ELSE IF x < edges[i] * BiasUnit THEN i - 1
    ELSE digitize_from(x, edges, i + 1)

RECURSIVE digitize_right_from(_, _, _)
\* the same search with right=True: edges[i-1] < x <= edges[i]
digitize_right_from(x, edges, i) ==
    IF i > Len(edges) THEN Len(edges)
    ELSE IF x <= edges[i] * BiasUnit THEN i - 1
    ELSE digitize_right_from(x, edges, i + 1)

\* np.digitize(x, edges, right=True)
np_digitize_right(x, edges) == digitize_right_from(x, edges, 1)
\* np.digitize(x, edges)
np_digitize(x, edges) == digitize_from(x, edges, 1)

\* plot_taylor_data is not run
PlotIdle ==
    /\ bias = 0
    /\ bias_digi = -1
    /\ mk = ""
    /\ mksz = 0

\* a row of df with its bias, plot_taylor_data called with use_bias=True
PlotInit ==
    /\ bias \in BiasValues
    /\ bias_digi = -1
    /\ mk = ""
    /\ mksz = 0

\* df['bias_digi'] = np.digitize(df['bias'].values, [...])
Digitize ==
    /\ UNCHANGED notplot
    /\ bias_digi = -1
    /\ bias_digi' = np_digitize(bias, bins)
    /\ UNCHANGED <<bias, mk, mksz>>

\* mk = marker_list[row['bias_digi']]; mksz = marker_size[row['bias_digi']]
PlotMarker ==
    /\ UNCHANGED notplot
    /\ bias_digi # -1
    /\ mk = ""
    /\ mk' = marker_list[bias_digi + 1]
    /\ mksz' = marker_size[bias_digi + 1]
    /\ UNCHANGED <<bias, bias_digi>>

----------------------------------------------------------------------------
\* vertical_average on one column (one lat, lon, time).

\* the number of levels of the column
NLev == 3
\* the largest hybrid coefficient, hyam and hybm being whole numbers here
MaxCoef == 1
\* the largest value of the field
MaxFld == 2
\* the largest distance of the surface pressure from P0
MaxPSDev == 1

\* the reference pressure of pres_from_hybrid, in units of 10^4 Pa
P0 == 10

\* the sequences of length n over the set S
SeqsOf(S, n) == [1..n -> S]

\* the orders of the lev coordinate: ascending (model top first) and
\* descending (surface first)
LevOrders == {[i \in 1..NLev |-> i], [i \in 1..NLev |-> NLev + 1 - i]}

\* pres_from_hybrid(ps, acoef, bcoef): the pressure of every level
pres_from_hybrid(ps, acoef, bcoef) ==
    [i \in DOMAIN acoef |-> acoef[i] * P0 + bcoef[i] * ps]

\* the index at which the coordinate lev has the value v: pres.sel(lev=v)
sel_lev(lev, v) == CHOOSE i \in DOMAIN lev : lev[i] = v

\* pres['lev'].max()
max_lev(lev) == CHOOSE v \in {lev[i] : i \in DOMAIN lev} : \A j \in DOMAIN lev : lev[j] <= v

\* pres['lev'].min()
min_lev(lev) == CHOOSE v \in {lev[i] : i \in DOMAIN lev} : \A j \in DOMAIN lev : lev[j] >= v

RECURSIVE trapz_x2(_, _, _)
\* twice np.trapz(y, x=x) from interval i on: the sum of
\* (x[i+1] - x[i]) * (y[i+1] + y[i]) along the axis, in index order
trapz_x2(y, x, i) ==
    IF i >= Len(x) THEN 0
    ELSE (x[i + 1] - x[i]) * (y[i + 1] + y[i]) + trapz_x2(y, x, i + 1)

\* fld_integrated / dp_integrated as the fraction num / den, both doubled;
\* den = 0 is the division by zero, which numpy answers with nan or inf
vertical_average(fld, lev, ps, acoef, bcoef) ==
    LET pres == pres_from_hybrid(ps, acoef, bcoef)
        maxlev == max_lev(lev)
        minlev == min_lev(lev)
        dp_integrated_x2 == pres[sel_lev(lev, maxlev)] * pres[sel_lev(lev, maxlev)]
                              - pres[sel_lev(lev, minlev)] * pres[sel_lev(lev, minlev)]
        fld_pres == [i \in DOMAIN fld |-> fld[i] * pres[i]]
        fld_integrated_x2 == trapz_x2(fld_pres, pres, 1)
    IN  [done |-> TRUE, num |-> fld_integrated_x2, den |-> dp_integrated_x2]

\* the columns of a dataset: the pressure grows with the value of lev
\* ("lev is a coordinate and is nominally in pressure units")
Columns ==
    {x \in [fld : SeqsOf(0..MaxFld, NLev), lev : LevOrders,
            ps : (P0 - MaxPSDev)..(P0 + MaxPSDev),
            hyam : SeqsOf(0..MaxCoef, NLev), hybm : SeqsOf(0..MaxCoef, NLev)] :
        LET pres == pres_from_hybrid(x.ps, x.hyam, x.hybm)
        IN  \A i, j \in 1..NLev : x.lev[i] < x.lev[j] => pres[i] < pres[j]}

NoColumn ==
    [fld |-> <<>>, lev |-> <<>>, ps |-> 0, hyam |-> <<>>, hybm |-> <<>>]

NoAverage == [done |-> FALSE, num |-> 0, den |-> 0]

\* vertical_average is not run
VAIdle ==
    /\ va_in = NoColumn
    /\ va_out = NoAverage

\* a column handed to vertical_average
VAInit ==
    /\ va_in \in Columns
    /\ va_out = NoAverage

\* vertical_average(ds[varname], ds['PS'], ds['hyam'], ds['hybm'])
VerticalAverage ==
    /\ UNCHANGED notva
    /\ ~va_out.done
    /\ va_out' = vertical_average(va_in.fld, va_in.lev, va_in.ps, va_in.hyam, va_in.hybm)
    /\ UNCHANGED va_in

----------------------------------------------------------------------------
\* taylor_stats_single on a small lat x lon grid of whole numbers.

\* the number of longitudes of the grid
NLon == 2
\* the largest value of a field
MaxVal == 2

\* the coordinate lat, in degrees: latitudes whose cosine is a fraction
lats == <<0, 60>>

\* the cells of the grid
Cells == (DOMAIN lats) \X (1..NLon)

\* the fields on the grid
Fields == [Cells -> 0..MaxVal]

\* np.cos(np.radians(lat)), doubled: cos 0 = 1, cos 60 = 1/2; a weight
\* enters a statistic only through quotients of weighted sums
cos_radians_x2(lat) == IF lat = 0 THEN 2 ELSE 1

\* wgt = np.cos(np.radians(lat)): lat is a DataArray, and so is wgt
cos_weights(lat) ==
    [type |-> "DataArray", vals |-> [i \in DOMAIN lat |-> cos_radians_x2(lat[i])]]

\* wgt = np.ones(len(lat)): a numpy array
ones_weights(lat) ==
    [type |-> "ndarray", vals |-> [i \in DOMAIN lat |-> 1]]

\* x.weighted(weights) of xarray accepts a DataArray only, and raises
\* ValueError("weights must be a DataArray") otherwise
weighted_accepts(weights) == weights.type = "DataArray"

RECURSIVE SumOver(_, _)
\* the sum of f over the set S of cells
SumOver(f, S) ==
    IF S = {} THEN 0
    ELSE LET c == CHOOSE c \in S : TRUE
         IN  f[c] + SumOver(f, S \ {c})

\* the sum of the weights, broadcast over lon
sum_of_weights(wv) == SumOver([c \in Cells |-> wv[c[1]]], Cells)

\* the weighted sum of x
weighted_sum(x, wv) == SumOver([c \in Cells |-> wv[c[1]] * x[c]], Cells)

\* x - x.weighted(weights).mean(), times the sum of the weights
dev_scaled(x, wv) ==
    [c \in Cells |-> sum_of_weights(wv) * x[c] - weighted_sum(x, wv)]

\* (dev_x * dev_y).weighted(weights).mean(), times the cube of the sum of
\* the weights
cov_scaled(x, y, wv) ==
    LET dev_x == dev_scaled(x, wv)
        dev_y == dev_scaled(y, wv)
    IN  weighted_sum([c \in Cells |-> dev_x[c] * dev_y[c]], wv)

TSError(type, msg) ==
    [status |-> "error", type |-> type, msg |-> msg,
     cov_xy |-> 0, cov_xx |-> 0, cov_yy |-> 0, bias_num |-> 0, bias_den |-> 0]

\* the triple (correlation, a_sigma/b_sigma, bias) in whole numbers:
\*   correlation = cov_xy / sqrt(cov_xx * cov_yy)
\*   a_sigma / b_sigma = sqrt(cov_xx / cov_yy)
\*   bias = bias_num / bias_den
\* a zero denominator is the division numpy answers with nan or inf
TSValue(cov_xy, cov_xx, cov_yy, bias_num, bias_den) ==
    [status |-> "ok", type |-> "tuple", msg |-> "",
     cov_xy |-> cov_xy, cov_xx |-> cov_xx, cov_yy |-> cov_yy,
     bias_num |-> bias_num, bias_den |-> bias_den]

\* weighted_correlation(x, y, weights), as its three covariances
weighted_correlation(x, y, weights) ==
    IF ~weighted_accepts(weights)
    THEN TSError("ValueError", "weights must be a DataArray")
    ELSE TSValue(cov_scaled(x, y, weights.vals), cov_scaled(x, x, weights.vals),
                 cov_scaled(y, y, weights.vals), 0, 0)

taylor_stats_single(casedata, refdata, w) ==
    LET lat == lats
        wgt == IF w THEN cos_weights(lat) ELSE ones_weights(lat)
        correlation == weighted_correlation(casedata, refdata, wgt)
        mean_case_scaled == weighted_sum(casedata, wgt.vals)
        mean_ref_scaled == weighted_sum(refdata, wgt.vals)
    IN  IF correlation.status = "error" THEN correlation
        ELSE TSValue(correlation.cov_xy, correlation.cov_xx, correlation.cov_yy,
                     100 * (mean_case_scaled - mean_ref_scaled), mean_ref_scaled)

NoFields == [casedata |-> <<>>, refdata |-> <<>>, w |-> TRUE]

NoStats == [TSError("", "") EXCEPT !.status = "none"]

\* taylor_stats_single is not run
TSIdle ==
    /\ ts_in = NoFields
    /\ ts_out = NoStats

\* two fields and the choice of weights handed to taylor_stats_single
TSInit ==
    /\ ts_in \in [casedata : Fields, refdata : Fields, w : BOOLEAN]
    /\ ts_out = NoStats

\* taylor_stats_single(casedata, refdata, w)
TaylorStatsSingle ==
    /\ UNCHANGED notts
    /\ ts_out.status = "none"
    /\ ts_out' = taylor_stats_single(ts_in.casedata, ts_in.refdata, ts_in.w)
    /\ UNCHANGED ts_in

----------------------------------------------------------------------------
\* The specifications.

Init == MainInit /\ CallIdle /\ PlotIdle /\ VAIdle /\ TSIdle

\* a run of cam_taylor_diagram
Next ==
    \/ ForSeason
    \/ ForVariable
    \/ ForCase
    \/ NextVariable
    \/ PlotSetup
    \/ PlotCase
    \/ FinalizeAndSave
    \/ Return

Spec == Init /\ [][Next]_vars

\* calls of the retrieval layer
CallNext ==
    \/ Call_retrieve
    \/ Call_get_derive_func
    \/ Call_get_prect
    \/ Call_find_landmask

InitCall == MainIdle /\ CallInit /\ PlotIdle /\ VAIdle /\ TSIdle

SpecCall == InitCall /\ [][CallNext]_vars

\* plot_taylor_data on one row
PlotNext ==
    \/ Digitize
    \/ PlotMarker

InitPlot == MainIdle /\ CallIdle /\ PlotInit /\ VAIdle /\ TSIdle

SpecPlot == InitPlot /\ [][PlotNext]_vars

\* vertical_average on one column
VANext == VerticalAverage

InitVA == MainIdle /\ CallIdle /\ PlotIdle /\ VAInit /\ TSIdle

SpecVA == InitVA /\ [][VANext]_vars

\* taylor_stats_single on two fields
TSNext == TaylorStatsSingle

InitTS == MainIdle /\ CallIdle /\ PlotIdle /\ VAIdle /\ TSInit

SpecTS == InitTS /\ [][TSNext]_vars

----------------------------------------------------------------------------
\* Properties of the retrieval layer (under SpecCall).

\* the call of fn has returned or raised
Returned(fn) == call.fn = fn /\ ~Pending

\* the number of files the pattern of the requested variable matches
NFiles == call.env.n[call.variable]

\* C4 as claimed: _retrieve of a variable that is not derived fails when no
\* file matches, loads the file when one matches, and returns a fully
\* materialized result when several match, so no deferred data is returned.
C4_AsClaimed ==
    (Returned("_retrieve") /\ call.variable \notin v_to_derive) =>
        /\ (NFiles = 0) => IsError(ret)
        /\ (NFiles = 1) => (ret.status = "ok" /\ ret.idx = 1)
        /\ (NFiles > 1) => (ret.status = "ok" /\ ~ret.deferred)
        /\ (ret.status = "ok") => ~ret.deferred

\* C4 amended: _retrieve of a variable that is not derived raises a
\* ValueError naming the variable when no file matches, opens the one file
\* when one matches, and when several match returns the combined
\* open_mfdataset result still deferred: _retrieve applies no .load().
C4_RetrieveByFileCount ==
    (Returned("_retrieve") /\ call.variable \notin v_to_derive) =>
        /\ (NFiles = 0) =>
             (IsError(ret) /\ ret.type = "ValueError" /\ ret.var = call.variable)
        /\ (NFiles = 1) =>
             (ret.status = "ok" /\ ret.idx = 1 /\ ret.src = call.variable
              /\ ~ret.deferred)
        /\ (NFiles > 1) =>
             (ret.status = "ok" /\ ret.src = call.variable /\ ret.deferred)
        /\ ret.type = (IF NFiles = 0 THEN "ValueError"
                       ELSE IF call.return_dataset THEN "Dataset" ELSE "DataArray")

\* C4 witness: _retrieve returned the field of a stored variable that
\* several files hold
C4_Witness ==
    /\ Returned("_retrieve")
    /\ call.variable = "PSL"
    /\ NFiles > 1
    /\ ret.status = "ok"

\* C5 as claimed: get_prect, with no PRECT file and both PRECC and PRECL
\* files, raises NotImplementedError whenever PRECC or PRECL has more than
\* one file and returns PRECC + PRECL only when each has exactly one.
C5_AsClaimed ==
    (/\ Returned("get_prect")
     /\ call.env.n["PRECT"] = 0
     /\ call.env.n["PRECC"] >= 1
     /\ call.env.n["PRECL"] >= 1) =>
        IF call.env.n["PRECC"] > 1 \/ call.env.n["PRECL"] > 1
        THEN IsError(ret) /\ ret.type = "NotImplementedError"
        ELSE ret.status = "ok" /\ ret.src = "PRECC+PRECL"

\* C6 as claimed: a name that is no registered derived quantity fails with an
\* error that lists the keys of the registry, from get_derive_func called
\* directly and from a request routed through _retrieve.
C6_AsClaimed ==
    ((Returned("get_derive_func") \/ Returned("_retrieve"))
      /\ call.variable \notin DOMAIN funcs) =>
        (IsError(ret) /\ ret.keys = DOMAIN funcs)

\* C6 amended: get_derive_func called directly with a name that is not
\* registered raises a ValueError whose message names the requested variable
\* and lists no key of the registry; such a name requested through _retrieve
\* never reaches get_derive_func: it is looked up as a stored variable, which
\* raises the ValueError of _retrieve when no file matches and returns the
\* stored field otherwise.
C6_UnknownName ==
    /\ (Returned("get_derive_func") /\ call.variable \notin DOMAIN funcs) =>
          /\ IsError(ret)
          /\ ret.type = "ValueError"
          /\ ret.msg = "We do not have a method for variable: {fld}."
          /\ ret.var = call.variable
          /\ ret.keys = {}
    /\ (Returned("get_derive_func") /\ call.variable \in DOMAIN funcs) =>
          (ret.status = "ok" /\ ret.var = funcs[call.variable])
    /\ (Returned("_retrieve") /\ call.variable \notin DOMAIN funcs) =>
          /\ ret.keys = {}
          /\ ret.msg # "We do not have a method for variable: {fld}."
          /\ IF NFiles = 0
             THEN /\ IsError(ret)
                  /\ ret.msg = "something went wrong for variable: {variable}"
                  /\ ret.var = call.variable
             ELSE ret.status = "ok" /\ ret.src = call.variable

\* C6 witness: get_derive_func was called with a name nothing registers and
\* raised
C6_Witness ==
    /\ Returned("get_derive_func")
    /\ call.variable = "FOO"
    /\ IsError(ret)

\* the first history file that holds LANDFRAC, 0 when none does
FirstWithLandfrac(hist) ==
    IF \E i \in 1..Len(hist) : hist[i]
    THEN CHOOSE i \in 1..Len(hist) : hist[i] /\ \A j \in 1..(i - 1) : ~hist[j]
    ELSE 0

\* C7: find_landmask returns the LANDFRAC of the climatology location when a
\* file there holds it; otherwise the LANDFRAC of the first history file
\* that contains it; when no history file contains it, zero files included,
\* it raises an IOError whose count is the number of history files scanned;
\* it always either returns a field or raises.
C7_FindLandmask ==
    Returned("find_landmask") =>
        /\ (call.env.n["LANDFRAC"] > 0) =>
              (ret.status = "ok" /\ ret.src = "climo" /\ ret.var = "LANDFRAC")
        /\ (call.env.n["LANDFRAC"] = 0 /\ FirstWithLandfrac(call.env.hist) > 0) =>
              /\ ret.status = "ok"
              /\ ret.src = "history"
              /\ ret.var = "LANDFRAC"
              /\ ret.idx = FirstWithLandfrac(call.env.hist)
        /\ (call.env.n["LANDFRAC"] = 0 /\ FirstWithLandfrac(call.env.hist) = 0) =>
              /\ IsError(ret)
              /\ ret.type = "IOError"
              /\ ret.count = Len(call.env.hist)
        /\ (ret.status = "ok" /\ ret.type = "DataArray") \/ IsError(ret)

\* C7 witness: find_landmask scanned two history files, none holding
\* LANDFRAC, and raised
C7_Witness ==
    /\ Returned("find_landmask")
    /\ call.env.n["LANDFRAC"] = 0
    /\ call.env.hist = <<FALSE, FALSE>>
    /\ IsError(ret)

----------------------------------------------------------------------------
\* Properties of cam_taylor_diagram (under Spec).

\* the months of the season the loop is in
SeasonMonths == seasons[season_keys[si]]

\* the statistics table holds the rows of the season the loop is in
InSeason == pc \in {"for_v", "for_case", "plot_data", "raised"}

\* C1 as claimed: for every season, variable and case both operands of
\* taylor_stats_single are temporal means over the months of the season: the
\* case field and the reference field were each selected to seasons[s] and
\* averaged over time.
C1_AsClaimed ==
    InSeason =>
        \A c \in 1..ncases, v \in 1..NVars :
            result_by_case[c][v].stored =>
                /\ result_by_case[c][v].case_months = SeasonMonths
                /\ ~result_by_case[c][v].case_timedim
                /\ result_by_case[c][v].ref_months = SeasonMonths
                /\ ~result_by_case[c][v].ref_timedim

\* the season labels in the order the images are to be saved
SaveOrder == <<"ANN", "DJF", "JJA", "MAM", "SON">>

\* every (variable, case) pair of the season the loop is in has its row
SeasonComplete ==
    \A c \in 1..ncases, v \in 1..NVars :
        result_by_case[c][v].stored /\ <<si, v, c>> \in computed

\* the diagram of the season is being set up, plotted or saved
Rendering == (pc = "for_v" /\ vi > NVars) \/ pc = "plot_data"

C2_State ==
    /\ Rendering => SeasonComplete
    /\ Len(saved) <= Len(SaveOrder)
    /\ \A i \in 1..Len(saved) :
          /\ saved[i] = out_file_name(SaveOrder[i], plot_type)
          /\ \A c \in 1..ncases, v \in 1..NVars : <<i, v, c>> \in computed
    /\ pc = "done" => Len(saved) = Len(SaveOrder)

C2_Step ==
    /\ \A t \in computed' \ computed : t[1] > Len(saved')
    /\ saved' # saved => (computed' = computed /\ Len(saved') = Len(saved) + 1)

\* C2: within each season rendering comes strictly after computation: while
\* the diagram of a season is set up, plotted and saved every (variable, case)
\* pair of that season has its row stored, no statistic of a season is
\* computed once its diagram is saved, and a run without failure saves
\* exactly one image per season, in the order ANN, DJF, JJA, MAM, SON.
C2_RenderAfterCompute == []C2_State /\ [][C2_Step]_vars

\* C2 witness: a run with test cases has ended with its five images saved
C2_Witness ==
    /\ pc = "done"
    /\ ncases >= 1
    /\ Len(saved) = 5

C3_State ==
    /\ (pc = "raised") <=> IsError(exc)
    /\ IsError(exc) =>
          /\ Len(saved) = si - 1
          /\ \A i \in 1..Len(saved) :
                saved[i] = out_file_name(season_keys[i], plot_type)
          /\ \A t \in computed : t[1] <= si

C3_Step ==
    /\ IsError(exc) => UNCHANGED <<saved, computed, result_by_case, nref, ncase, pc>>
    /\ IsError(exc') => (saved' = saved /\ computed' = computed)

\* C3: when the retrieval or derivation of a case field or of the reference
\* field fails in season s, the exception leaves cam_taylor_diagram: no
\* diagram is saved for s or a later season, nothing is computed or retrieved
\* after the failure, and the diagrams of the earlier seasons are the only
\* output.
C3_FailureAborts == []C3_State /\ [][C3_Step]_vars

\* C3 witness: a retrieval failed in the second season, after the diagram of
\* the first was saved
C3_Witness ==
    /\ pc = "raised"
    /\ IsError(exc)
    /\ si = 2
    /\ Len(saved) = 1

\* the (season, variable) pairs the loop has entered, by its position
PairsEntered ==
    CASE pc = "for_s" -> (si - 1) * NVars
      [] pc = "for_v" -> (si - 1) * NVars + (vi - 1)
      [] pc = "for_case" -> (si - 1) * NVars + vi
      [] pc = "plot_data" -> si * NVars
      [] OTHER -> NSeasons * NVars

\* the (season, variable, case) triples the loop has entered, by its position
TriplesEntered ==
    IF pc = "for_case"
    THEN (PairsEntered - 1) * ncases + (ci - 1)
    ELSE PairsEntered * ncases

C11_State ==
    /\ pc # "raised" =>
          /\ nref = PairsEntered
          /\ ncase = TriplesEntered
    /\ pc = "done" =>
          /\ nref = 5 * 10
          /\ ncase = 5 * 10 * ncases
    /\ InSeason =>
          \A c \in 1..ncases, v \in 1..NVars :
              result_by_case[c][v].stored =>
                  result_by_case[c][v].ref_call = (si - 1) * NVars + v
    /\ pc = "for_case" =>
          \A c \in 1..ncases :
              result_by_case[c][vi].stored =>
                  /\ result_by_case[c][vi].ref_call = nref
                  /\ result_by_case[c][vi].ref_months = base_x.months
                  /\ result_by_case[c][vi].ref_timedim = base_x.timedim

C11_Step ==
    /\ ncase' # ncase =>
          /\ nref' = nref
          /\ base_x' = base_x
          /\ ncase' = ncase + 1
    /\ nref' # nref =>
          /\ nref' = nref + 1
          /\ ncase' = ncase
          /\ pc = "for_v"

\* C11: the reference field is retrieved once per (season, variable), before
\* the loop over the cases and never inside it: a run that returns has made
\* 5 x 10 reference retrievals whatever the number of cases and one case
\* retrieval per (season, variable, case), and every row of a (season,
\* variable) was computed against the one reference bound for that pair.
C11_RefOncePerPair == []C11_State /\ [][C11_Step]_vars

\* a run with two cases returned: 50 reference and 100 case retrievals
C11_Witness ==
    /\ pc = "done"
    /\ ncases = MaxCases
    /\ ncases >= 2
    /\ nref = 50
    /\ ncase = 100

----------------------------------------------------------------------------
\* Properties of plot_taylor_data (under SpecPlot).

\* the values the claim names, in percent, in the order of their bins 0..8
Representative == <<-25, -15, -7, -2, 0, 2, 7, 15, 25>>

\* C8: the bias bin is the number of thresholds of [-20,-10,-5,-1,1,5,10,20]
\* that are less than or equal to the bias, so a bias equal to a threshold
\* falls into the bin at or above it; every bias maps to an index in 0..8,
\* a valid index of the 9-entry marker tables; and -25,-15,-7,-2,0,2,7,15,25
\* map to the bins 0..8.
C8_BiasBin ==
    /\ bias_digi # -1 =>
          /\ bias_digi = Cardinality({t \in {-20, -10, -5, -1, 1, 5, 10, 20} :
                                          t * BiasUnit <= bias})
          /\ bias_digi \in 0..8
          /\ bias_digi + 1 \in DOMAIN marker_list
          /\ bias_digi + 1 \in DOMAIN marker_size
          /\ \A k \in 1..9 :
                (bias = Representative[k] * BiasUnit) => (bias_digi = k - 1)
    /\ mk # "" => (mk \in {"v", "o", "^"} /\ mksz \in {4, 8, 16, 24})

\* C8 witness: a bias of exactly 5 percent was binned, into bin 6
C8_Witness ==
    /\ bias = 5 * BiasUnit
    /\ bias_digi = 6
    /\ mk = "^"

\* the marker and the size plot_taylor_data draws for a bias of x
drawn(x) ==
    [marker |-> marker_list[np_digitize(x, bins) + 1],
     markersize |-> marker_size[np_digitize(x, bins) + 1]]

\* C12 as claimed: the marker encodes the magnitude of the bias symmetrically:
\* the size drawn for a bias b is the size drawn for -b, marker and size are
\* those of one tier of the bias legend, the circle is drawn exactly when
\* -1 < b < 1, the downward triangle for every b <= -1 and the upward triangle
\* for every b >= 1, also when |b| is exactly 1, 5, 10 or 20.
C12_AsClaimed ==
    mk # "" =>
        /\ mk = drawn(bias).marker
        /\ mksz = drawn(bias).markersize
        /\ mksz = drawn(-bias).markersize
        /\ \E i \in DOMAIN bias_legend_elements :
              /\ mk \in bias_legend_elements[i].marker
              /\ mksz = bias_legend_elements[i].markersize
        /\ (mk = "o") <=> (-BiasUnit < bias /\ bias < BiasUnit)
        /\ (bias <= -BiasUnit) => (mk = "v")
        /\ (bias >= BiasUnit) => (mk = "^")

----------------------------------------------------------------------------
\* Properties of vertical_average (under SpecVA).

\* the field of the column has the same value at every level
ConstantField == \A i, j \in DOMAIN va_in.fld : va_in.fld[i] = va_in.fld[j]

\* C9 as claimed: vertical_average of a field with the same value c at every
\* level returns c, for any surface pressure and hybrid coefficients and for
\* any order of the lev coordinate, ascending or descending.
C9_AsClaimed ==
    (va_out.done /\ ConstantField) =>
        /\ va_out.den # 0
        /\ va_out.num = va_in.fld[1] * va_out.den

----------------------------------------------------------------------------
\* Properties of taylor_stats_single (under SpecTS).

\* the field is not the same value everywhere
NonConstant(x) == \E c, d \in Cells : x[c] # x[d]

\* the field does not vanish everywhere, so no weighted mean of it is zero
NonZeroMean(x) == \E c \in Cells : x[c] # 0

\* the call returned correlation 1, standard-deviation ratio 1 and bias 0
UnitTriple(t) ==
    /\ t.status = "ok"
    /\ t.cov_xy > 0
    /\ t.cov_xy * t.cov_xy = t.cov_xx * t.cov_yy
    /\ t.cov_yy # 0
    /\ t.cov_xx = t.cov_yy
    /\ t.bias_den # 0
    /\ t.bias_num = 0

\* C10 as claimed: taylor_stats_single of two identical non-constant fields
\* with non-zero mean returns correlation 1, ratio 1 and bias 0, with w=True
\* and with w=False, and fails in neither mode.
C10_AsClaimed ==
    (/\ ts_out.status # "none"
     /\ ts_in.casedata = ts_in.refdata
     /\ NonConstant(ts_in.casedata)
     /\ NonZeroMean(ts_in.casedata)) =>
        UnitTriple(ts_out)

====
